---- MODULE Spec2Model ----
(***************************************************************************)
(* A model of app.py: the Strava webhook receiver, the in-memory token     *)
(* store with refresh on demand, and the process_activity pipeline         *)
(* (activity fetch, filter, history fetch, week summary, prompt, OpenAI    *)
(* request, Telegram notification).                                        *)
(*                                                                         *)
(* JSON numbers are fixed-point: an integer n stands for n / Scale, so a   *)
(* fractional distance such as 0.5 m is a value of the model and int() is  *)
(* a real truncation.  Times are whole seconds.                            *)
(***************************************************************************)
EXTENDS Integers, Sequences, FiniteSets, TLC

\* ------------------------------------------------------------- bounds
\* Resolution of the fixed-point numbers: n stands for n / Scale.
Scale == 2
\* Longest activity list handed to summarize_week by the function harness.
MaxActs == 2
\* The clock runs over 0 .. MaxTime seconds.
MaxTime == 1
\* Background runs of process_activity scheduled over a behaviour.
MaxRuns == 2
\* Successful token grants (OAuth exchanges and refreshes) over a behaviour.
MaxGrants == 2

\* -------------------------------------------------- program constants
\* now > expires_at - 60
RefreshMargin == 60
\* moving < 60
MinMovingTime == 60
\* dist < 200
MinDistance == 200
\* timedelta(days=7), in seconds
Week == 604800

\* ------------------------------------------------------------- JSON
\* A JSON value of a numeric field: a number (fixed-point) or null.  An
\* absent key is a key outside the DOMAIN of the object.
Num(n) == [k |-> "num", v |-> n]
Null == [k |-> "null", v |-> 0]

\* dict.get(key, default)
Get(obj, key, default) == IF key \in DOMAIN obj THEN obj[key] ELSE default

\* Python's `x or 0` on a number or None: a falsy value (None, 0) gives 0.
OrZero(j) == IF j.k = "null" \/ j.v = 0 THEN 0 ELSE j.v

\* int(x) on a float: truncation toward zero, back to whole units.
IntOf(x) == IF x >= 0 THEN x \div Scale ELSE -((-x) \div Scale)

\* ------------------------------------------------ is_moving_activity
is_moving_activity_lenient(activity) ==
    LET dist == OrZero(Get(activity, "distance", Num(0)))
        moving == OrZero(Get(activity, "moving_time", Num(0)))
    IN  IF dist <= 0 /\ moving <= 0 THEN FALSE
        ELSE IF moving <= MinMovingTime * Scale /\ dist <= MinDistance * Scale THEN FALSE
        ELSE TRUE

is_moving_activity(activity) ==
    LET dist == OrZero(Get(activity, "distance", Num(0)))
        moving == OrZero(Get(activity, "moving_time", Num(0)))
    IN  IF dist <= 0 /\ moving <= 0 THEN FALSE
        ELSE IF moving < MinMovingTime * Scale /\ dist < MinDistance * Scale THEN FALSE
        ELSE TRUE

\* ---------------------------------------------------- summarize_week
\* The JSON value of "start_date".  A string is kept by what it denotes:
\* form "z" is "<local>Z", "offset" is "<local>+hh:mm" (off seconds east),
\* "naive" is "<local>" with no zone, "bad" is text that is no ISO date.
\* k = "null" is a value that is no string (null, a number).
DateStr(form, local, off) == [k |-> "str", form |-> form, local |-> local, off |-> off]
DateNull == [k |-> "null", form |-> "bad", local |-> 0, off |-> 0]

\* x["start_date"].replace("Z", "+00:00")
ReplaceZ(s) == IF s.form = "z" THEN DateStr("offset", s.local, 0) ELSE s

\* datetime.fromisoformat: raises on text that is no ISO date; a string
\* without an offset gives a naive datetime, one with an offset an instant.
FromIsoFormat(s) ==
    CASE s.form = "offset" -> [ok |-> TRUE, aware |-> TRUE, t |-> s.local - s.off]
      [] s.form = "naive" -> [ok |-> TRUE, aware |-> FALSE, t |-> s.local]
      [] OTHER -> [ok |-> FALSE, aware |-> FALSE, t |-> 0]

\* The try block of the loop: a missing key, a non-string value or an
\* unparsable string raises inside it.
ParseStart(x) ==
    IF "start_date" \notin DOMAIN x THEN [ok |-> FALSE, aware |-> FALSE, t |-> 0]
    ELSE IF x["start_date"].k # "str" THEN [ok |-> FALSE, aware |-> FALSE, t |-> 0]
    ELSE FromIsoFormat(ReplaceZ(x["start_date"]))

\* start > now - timedelta(days=7)
InWindow(start, clock) == start > clock - Week

ZeroTotals == [raised |-> FALSE, cnt |-> 0, dur |-> 0, dist |-> 0, elev |-> 0]

\* One pass of the for loop over acts[i..]; acc holds cnt, dur, dist, elev.
\* Comparing a naive datetime with the aware `now` raises TypeError outside
\* the try block: the exception leaves summarize_week.
RECURSIVE SumLoop(_, _, _, _)
SumLoop(acts, i, clock, acc) ==
    IF i > Len(acts) THEN acc
    ELSE LET x == acts[i]
             p == ParseStart(x)
         IN  IF ~p.ok THEN SumLoop(acts, i + 1, clock, acc)
             ELSE IF ~p.aware THEN [acc EXCEPT !.raised = TRUE]
             ELSE IF InWindow(p.t, clock)
                  THEN SumLoop(acts, i + 1, clock,
                         [raised |-> FALSE,
                          cnt |-> acc.cnt + 1,
                          dur |-> acc.dur + OrZero(Get(x, "moving_time", Num(0))),
                          dist |-> acc.dist + OrZero(Get(x, "distance", Num(0))),
                          elev |-> acc.elev + OrZero(Get(x, "total_elevation_gain", Num(0)))])
                  ELSE SumLoop(acts, i + 1, clock, acc)

NoSummary == [raised |-> FALSE, workouts |-> 0, duration_s |-> 0, dist_m |-> 0, elev_m |-> 0]

\* The returned dict, or raised = TRUE when the TypeError propagates.
summarize_week(acts, clock) ==
    LET acc == SumLoop(acts, 1, clock, ZeroTotals)
    IN  IF acc.raised THEN [NoSummary EXCEPT !.raised = TRUE]
        ELSE [raised |-> FALSE,
              workouts |-> acc.cnt,
              duration_s |-> IntOf(acc.dur),
              dist_m |-> IntOf(acc.dist),
              elev_m |-> IntOf(acc.elev)]

\* -------------------------------------------------------- ask_openai
\* Texts are sequences of characters, so that strip() is computed.
RECURSIVE LStrip(_)
LStrip(s) == IF s # <<>> /\ Head(s) = " " THEN LStrip(Tail(s)) ELSE s

RECURSIVE RStrip(_)
RStrip(s) == IF s # <<>> /\ s[Len(s)] = " " THEN RStrip(SubSeq(s, 1, Len(s) - 1)) ELSE s

\* str.strip()
Strip(s) == RStrip(LStrip(s))

\* The three fixed replies of ask_openai.
FallbackNoKey == <<"no-key">>
FallbackEmpty == <<"empty-output">>
FallbackError == <<"request-error">>

\* A response of an HTTP call.  kind: "neterr" (requests raises),
\* "http_err" (raise_for_status raises), "ok".  For the completion call,
\* out is the JSON value under "output_text": absent, null or a string.
OutAbsent == [k |-> "absent", s |-> <<>>]
OutNull == [k |-> "null", s |-> <<>>]
OutStr(s) == [k |-> "str", s |-> s]
Resp(kind, out) == [kind |-> kind, out |-> out]

\* The value returned and the number of network calls made.  key is whether
\* OPENAI_API_KEY holds a non-empty value.
Reply(calls, text) == [calls |-> calls, raised |-> FALSE, text |-> text]

ask_openai_unchecked(key, resp) ==
    IF ~key THEN Reply(0, FallbackNoKey)
    ELSE IF resp.kind # "ok" THEN Reply(1, FallbackError)
    ELSE IF resp.out.k = "null" THEN Reply(1, FallbackError)
    ELSE Reply(1, Strip(resp.out.s))

\* Everything after the key test runs inside try / except Exception.
ask_openai(key, resp) ==
    IF ~key THEN Reply(0, FallbackNoKey)
    ELSE IF resp.kind # "ok" THEN Reply(1, FallbackError)
    \* data.get("output_text", "").strip(): None has no strip()
    ELSE IF resp.out.k = "null" THEN Reply(1, FallbackError)
    ELSE LET txt == Strip(IF resp.out.k = "absent" THEN <<>> ELSE resp.out.s)
         IN  IF txt = <<>> THEN Reply(1, FallbackEmpty)
             ELSE Reply(1, txt)

\* ----------------------------------------------------------- send_tg
\* token, chat: whether TG_BOT_TOKEN and (chat_id or TG_CHAT_ID) hold a
\* non-empty value.  Every response of the delivery call is swallowed.
send_tg_token_only(token, chat, resp) ==
    IF ~token THEN [calls |-> 0, raised |-> FALSE]
    ELSE [calls |-> 1, raised |-> FALSE]

send_tg(token, chat, resp) ==
    IF ~token \/ ~chat THEN [calls |-> 0, raised |-> FALSE]
    ELSE [calls |-> 1, raised |-> FALSE]

\* ------------------------------------------------------------ verify
\* Query parameter values: request.query_params.get(key) is None for an
\* absent key and the (possibly empty) string otherwise.
QNone == [k |-> "none", s |-> <<>>]
QStr(t) == [k |-> "str", s |-> t]
QGet(query, key) == IF key \in DOMAIN query THEN query[key] ELSE QNone

\* a or b: a when a is truthy (a non-empty string), b otherwise.
PyOr(a, b) == IF a.k = "str" /\ a.s # <<>> THEN a ELSE b

verify_first_only(query) ==
    [status_code |-> 200, body |-> PyOr(QGet(query, "hub.challenge"), QStr(<<>>))]

verify(query) ==
    LET challenge == PyOr(PyOr(QGet(query, "hub.challenge"), QGet(query, "hub_challenge")),
                          QGet(query, "challenge"))
    IN  [status_code |-> 200, body |-> PyOr(challenge, QStr(<<>>))]

\* ------------------------------------------------------------- state
VARIABLES
    now,     \* time.time() / datetime.now(): the wall clock, in seconds
    env,     \* which of OPENAI_API_KEY, TG_BOT_TOKEN, TG_CHAT_ID are set
    TOKENS,  \* athlete id -> the dict object stored for it (0: no entry)
    keys,    \* list(TOKENS.keys()): the athlete ids in insertion order
    heap,    \* dict object -> its fields access, refresh, expires_at
    issued,  \* authorization-code grants handed out so far
    runs,    \* the background tasks, one process_activity call each, and
             \* at PlanId the weekly_plan request
    ack,     \* body of the last response of POST /strava/webhook
    unit     \* the function harness: one call of one function

vars == <<now, env, TOKENS, keys, heap, issued, runs, ack, unit>>

Athletes == {1, 2}
Grants == 1 .. MaxGrants
RunIds == 1 .. MaxRuns

\* The callers of get_access_token: the background tasks and the handler
\* of GET /plan/weekly.
PlanId == 0
Callers == RunIds \cup {PlanId}

\* Seconds of validity the authorization server gives a new access token:
\* a token is fresh at the second it is issued and stale one second later.
Lifetimes == {RefreshMargin}

NoRecord == [access |-> 0, refresh |-> 0, expires_at |-> 0]
NoData == [access |-> 0, refresh |-> 0, expires_at |-> 0]

\* payload.get(key): None for an absent key.
NoneStr == "None"

\* No activity fetched yet.
NoActivity == [distance |-> Null, moving_time |-> Null]

\* The local variables of one process_activity call and of the
\* get_access_token call inside it.  calls is the list of the network
\* calls the run has made, each with whether it succeeded.
IdleRun ==
    [pc |-> "idle", athlete |-> Null, activity |-> Null,
     t |-> 0, pre |-> NoRecord, nowv |-> 0, data |-> NoData, token |-> 0,
     r_act |-> NoActivity,
     summary |-> NoSummary, advice |-> <<>>, calls |-> <<>>, outcome |-> "none"]

Call(name, ok) == [c |-> name, ok |-> ok]

\* The run has returned (or raised): its locals are gone.
Finished(run, outcome) ==
    [IdleRun EXCEPT !.pc = "done", !.athlete = run.athlete, !.activity = run.activity,
                    !.calls = run.calls, !.outcome = outcome]

NoUnit == [fn |-> "none", done |-> FALSE]

\* ------------------------------------------------------ POST webhook
\* Event payloads: every key may be absent.
PayloadFields ==
    [object_type : {NoneStr, "activity", "athlete"},
     aspect_type : {NoneStr, "create", "update", "delete"},
     owner_id : {Null, Num(1), Num(2)},
     object_id : {Num(99)}]

\* if object_type == "activity" and aspect_type in ("create", "update")
ShouldProcess_create_only(object_type, aspect_type) ==
    object_type = "activity" /\ aspect_type = "create"

ShouldProcess(object_type, aspect_type) ==
    object_type = "activity" /\ aspect_type \in {"create", "update"}

FreeSlots == {r \in RunIds : runs[r].pc = "idle"}

\* background_tasks.add_task(process_activity, owner_id, activity_id): the
\* task is only recorded; the framework calls it after the response of
\* the request has been sent.
AddTask_inline(owner_id, activity_id) ==
    LET r == CHOOSE x \in FreeSlots : \A y \in FreeSlots : x <= y
    IN  runs' = [runs EXCEPT ![r] = Finished([IdleRun EXCEPT !.athlete = owner_id,
                                                             !.activity = activity_id],
                                             "no_token")]

AddTask(owner_id, activity_id) ==
    LET r == CHOOSE x \in FreeSlots : \A y \in FreeSlots : x <= y
    IN  runs' = [runs EXCEPT ![r] = [IdleRun EXCEPT !.pc = "queued",
                                                    !.athlete = owner_id,
                                                    !.activity = activity_id]]

Webhook(p) ==
    /\ ShouldProcess(p.object_type, p.aspect_type) => FreeSlots # {}
    /\ IF ShouldProcess(p.object_type, p.aspect_type)
       THEN AddTask(p.owner_id, p.object_id)
       ELSE UNCHANGED runs
    /\ ack' = "ok"
    /\ UNCHANGED <<now, env, TOKENS, keys, heap, issued, unit>>

\* ---------------------------------------------------- oauth_callback
\* Outcomes of an HTTP exchange that give no usable body: requests raises,
\* raise_for_status raises, r.json() raises.
FailKinds == {"neterr", "http_err", "badjson"}

\* A failed exchange raises before TOKENS is touched.
ExchangeFails == UNCHANGED <<TOKENS, keys, heap, issued>>

\* A successful exchange stores a new dict for the athlete the server names.
OauthCallback ==
    /\ \/ ExchangeFails
       \/ /\ issued < MaxGrants
          /\ \E a \in Athletes, life \in Lifetimes :
                LET g == issued + 1
                IN  /\ issued' = g
                    /\ heap' = [heap EXCEPT ![g] = [access |-> g, refresh |-> g,
                                                    expires_at |-> now + life]]
                    /\ TOKENS' = [TOKENS EXCEPT ![a] = g]
                    /\ keys' = IF TOKENS[a] = 0 THEN Append(keys, a) ELSE keys
    /\ UNCHANGED <<now, env, runs, ack, unit>>

\* -------------------------------------------------- get_access_token
GatPcs == {"gat_post", "gat_w_access", "gat_w_refresh", "gat_w_exp", "gat_ret"}

\* if athlete_id not in TOKENS
HasTokens(athlete_id) == athlete_id.k = "num" /\ athlete_id.v \in Athletes
                         /\ TOKENS[athlete_id.v] # 0

\* if now > t["expires_at"] - 60
NeedsRefresh_no_margin(clock, expires_at) == clock > expires_at

NeedsRefresh(clock, expires_at) == clock > expires_at - RefreshMargin

\* process_activity starts and get_access_token runs up to its branch: the
\* lookup, the clock read and the expiry test.  The lookup only binds t and
\* the test only reads, so taking the three together loses no interleaving
\* that writes the store.  With no entry get_access_token raises KeyError,
\* which process_activity catches and returns.
StartRun_first_key(r) ==
    /\ runs[r].pc = "queued"
    /\ IF HasTokens(runs[r].athlete)
       THEN LET o == TOKENS[Head(keys)]
            IN  runs' = [runs EXCEPT
                  ![r].pc = IF NeedsRefresh(now, heap[o].expires_at)
                            THEN "gat_post" ELSE "gat_ret",
                  ![r].t = o, ![r].pre = heap[o], ![r].nowv = now]
       ELSE runs' = [runs EXCEPT ![r] = Finished(runs[r], "no_token")]
    /\ UNCHANGED <<now, env, TOKENS, keys, heap, issued, ack, unit>>

StartRun(r) ==
    /\ runs[r].pc = "queued"
    /\ IF HasTokens(runs[r].athlete)
       THEN LET o == TOKENS[runs[r].athlete.v]
            IN  runs' = [runs EXCEPT
                  ![r].pc = IF NeedsRefresh(now, heap[o].expires_at)
                            THEN "gat_post" ELSE "gat_ret",
                  ![r].t = o, ![r].pre = heap[o], ![r].nowv = now]
       ELSE runs' = [runs EXCEPT ![r] = Finished(runs[r], "no_token")]
    /\ UNCHANGED <<now, env, TOKENS, keys, heap, issued, ack, unit>>

\* The refresh exchange.  A failure raises out of get_access_token before
\* any field is written; process_activity catches it and returns.  The
\* responses are a failure or a well-formed grant, with or without a new
\* refresh_token; a 2xx body that lacks access_token or expires_at is not
\* among them.
RefreshFails_after_write(r) ==
    /\ runs' = [runs EXCEPT ![r] =
               Finished([runs[r] EXCEPT !.calls = Append(@, Call("refresh", FALSE))],
                        "token_error")]
    /\ heap' = [heap EXCEPT ![runs[r].t].access = 0]

RefreshFails_retry(r) ==
    /\ runs' = IF runs[r].calls = <<>>
               THEN [runs EXCEPT ![r].calls = Append(@, Call("refresh", FALSE))]
               ELSE [runs EXCEPT ![r] =
                       Finished([runs[r] EXCEPT !.calls = Append(@, Call("refresh", FALSE))],
                                "token_error")]
    /\ heap' = heap

RefreshFails(r) ==
    /\ runs' = [runs EXCEPT ![r] =
               Finished([runs[r] EXCEPT !.calls = Append(@, Call("refresh", FALSE))],
                        "token_error")]
    /\ heap' = heap

\* The access token of the response to the refresh request of caller r: each
\* caller refreshes at most once, and no authorization-code grant has the
\* value.
RefreshGrant(r) == MaxGrants + 1 + r

GatPost(r) ==
    /\ runs[r].pc = "gat_post"
    /\ \/ RefreshFails(r)
       \/ /\ \E life \in Lifetimes, rotated \in BOOLEAN :
                runs' = [runs EXCEPT
                          ![r].pc = "gat_w_access",
                          ![r].calls = Append(@, Call("refresh", TRUE)),
                          ![r].data = [access |-> RefreshGrant(r),
                                       refresh |-> IF rotated THEN RefreshGrant(r) ELSE 0,
                                       expires_at |-> now + life]]
          /\ UNCHANGED heap
    /\ UNCHANGED <<now, env, TOKENS, keys, issued, ack, unit>>

\* t["access"] = data["access_token"]: t is the dict object read at the
\* start of the call, whatever TOKENS holds for the athlete by now.
GatWriteAccess_by_key(r) ==
    /\ runs[r].pc = "gat_w_access"
    /\ heap' = [heap EXCEPT ![TOKENS[runs[r].athlete.v]].access = runs[r].data.access]
    /\ runs' = [runs EXCEPT ![r].pc = "gat_w_refresh"]
    /\ UNCHANGED <<now, env, TOKENS, keys, issued, ack, unit>>

GatWriteAccess(r) ==
    /\ runs[r].pc = "gat_w_access"
    /\ heap' = [heap EXCEPT ![runs[r].t].access = runs[r].data.access]
    /\ runs' = [runs EXCEPT ![r].pc = "gat_w_refresh"]
    /\ UNCHANGED <<now, env, TOKENS, keys, issued, ack, unit>>

\* t["refresh"] = data.get("refresh_token", t["refresh"])
GatWriteRefresh(r) ==
    /\ runs[r].pc = "gat_w_refresh"
    /\ heap' = [heap EXCEPT ![runs[r].t].refresh =
                  IF runs[r].data.refresh # 0 THEN runs[r].data.refresh ELSE @]
    /\ runs' = [runs EXCEPT ![r].pc = "gat_w_exp"]
    /\ UNCHANGED <<now, env, TOKENS, keys, issued, ack, unit>>

\* t["expires_at"] = data["expires_at"]
GatWriteExpiry(r) ==
    /\ runs[r].pc = "gat_w_exp"
    /\ heap' = [heap EXCEPT ![runs[r].t].expires_at = runs[r].data.expires_at]
    /\ runs' = [runs EXCEPT ![r].pc = "gat_ret"]
    /\ UNCHANGED <<now, env, TOKENS, keys, issued, ack, unit>>

\* return t["access"]
GatReturn(r) ==
    /\ runs[r].pc = "gat_ret"
    /\ runs' = [runs EXCEPT ![r].pc = "fetch_act",
                             ![r].token = heap[runs[r].t].access]
    /\ UNCHANGED <<now, env, TOKENS, keys, heap, issued, ack, unit>>

\* -------------------------------------------------- process_activity
\* Bodies the platform may return for GET /activities/{id}: JSON objects
\* whose distance and moving_time are numbers or null.
GoodActivity == [distance |-> Num(5000 * Scale), moving_time |-> Num(1800 * Scale)]
EmptyActivity == [distance |-> Num(0), moving_time |-> Null]
FetchedActivities == {GoodActivity, EmptyActivity}

\* Bodies the platform may return for GET /athlete/activities.
RecentEntry == [start_date |-> DateStr("z", 0, 0), moving_time |-> Num(1800 * Scale),
                distance |-> Num(5000 * Scale + 1)]
NaiveEntry == [start_date |-> DateStr("naive", 0, 0), moving_time |-> Num(60 * Scale)]
FetchedLists == {<<>>, <<RecentEntry>>, <<NaiveEntry>>}

\* Step 2 and 2a: the single-activity fetch and the filter.  A transport
\* error, a status other than 200 or an unreadable body ends the run.
ActivityFetchFails_continue(r) ==
    runs' = [runs EXCEPT ![r].pc = "fetch_list",
                         ![r].calls = Append(@, Call("activity", FALSE))]

ActivityFetchFails(r) ==
    runs' = [runs EXCEPT ![r] =
               Finished([runs[r] EXCEPT !.calls = Append(@, Call("activity", FALSE))],
                        "fetch_failed")]

\* The get_access_token frame is gone: only the token is kept.
AfterToken(run) ==
    [run EXCEPT !.t = 0, !.pre = NoRecord, !.nowv = 0, !.data = NoData]

FetchActivity_no_filter(r) ==
    /\ runs[r].pc = "fetch_act"
    /\ \/ ActivityFetchFails(r)
       \/ \E activity \in FetchedActivities :
            LET run == [AfterToken(runs[r]) EXCEPT
                          !.calls = Append(@, Call("activity", TRUE))]
            IN  runs' = [runs EXCEPT ![r] = [run EXCEPT !.pc = "fetch_list",
                                                        !.r_act = activity]]
    /\ UNCHANGED <<now, env, TOKENS, keys, heap, issued, ack, unit>>

FetchActivity(r) ==
    /\ runs[r].pc = "fetch_act"
    /\ \/ ActivityFetchFails(r)
       \/ \E activity \in FetchedActivities :
            LET run == [AfterToken(runs[r]) EXCEPT
                          !.calls = Append(@, Call("activity", TRUE))]
            IN  IF is_moving_activity(activity)
                THEN runs' = [runs EXCEPT ![r] = [run EXCEPT !.pc = "fetch_list",
                                                             !.r_act = activity]]
                ELSE runs' = [runs EXCEPT ![r] = Finished(run, "skipped")]
    /\ UNCHANGED <<now, env, TOKENS, keys, heap, issued, ack, unit>>

\* except / status != 200: acts = []
ListOnFailure_abort(run) == Finished(run, "fetch_failed")

ListOnFailure(run) ==
    [run EXCEPT !.pc = "ask", !.summary = summarize_week(<<>>, now)]

\* build_coach_prompt reads the activity through .get and serialises JSON
\* values: it has no raising path on a fetched activity.
BuildPromptRaises == FALSE

\* Steps 3 and 4: the list fetch, summarize_week and the prompt.  The
\* TypeError of summarize_week is caught nowhere: it leaves the run.
FetchList(r) ==
    /\ runs[r].pc = "fetch_list"
    /\ \/ runs' = [runs EXCEPT ![r] =
                    ListOnFailure([AfterToken(runs[r]) EXCEPT
                                     !.calls = Append(@, Call("list", FALSE))])]
       \/ \E acts \in FetchedLists :
            LET run == [AfterToken(runs[r]) EXCEPT
                          !.calls = Append(@, Call("list", TRUE))]
                week_summary == summarize_week(acts, now)
            IN  IF week_summary.raised
                THEN runs' = [runs EXCEPT ![r] = Finished(run, "raised")]
                ELSE IF BuildPromptRaises
                THEN runs' = [runs EXCEPT ![r] = Finished(run, "prompt_error")]
                ELSE runs' = [runs EXCEPT ![r] =
                                [run EXCEPT !.pc = "ask", !.summary = week_summary]]
    /\ UNCHANGED <<now, env, TOKENS, keys, heap, issued, ack, unit>>

\* Responses of the completion service seen by a run.
AdviceResponses ==
    {Resp("neterr", OutAbsent), Resp("http_err", OutAbsent), Resp("ok", OutAbsent),
     Resp("ok", OutStr(<<"a">>))}

LogIf(calls, n, name) == IF n = 1 THEN Append(calls, Call(name, TRUE)) ELSE calls

\* Step 5: advice = ask_openai(prompt)
AskOpenai(r) ==
    /\ runs[r].pc = "ask"
    /\ \E resp \in AdviceResponses :
          LET res == ask_openai(env.openai_key, resp)
          IN  runs' = [runs EXCEPT ![r].pc = "notify",
                                   ![r].advice = res.text,
                                   ![r].calls = LogIf(@, res.calls, "openai")]
    /\ UNCHANGED <<now, env, TOKENS, keys, heap, issued, ack, unit>>

\* Step 6: send_tg(msg), then process_activity returns.
SendTg(r) ==
    /\ runs[r].pc = "notify"
    /\ \E kind \in {"neterr", "http_err", "ok"} :
          LET res == send_tg(env.tg_token, env.tg_chat, Resp(kind, OutAbsent))
          IN  runs' = [runs EXCEPT ![r] =
                         Finished([runs[r] EXCEPT !.calls = LogIf(@, res.calls, "telegram")],
                                  IF res.raised THEN "raised" ELSE "completed")]
    /\ UNCHANGED <<now, env, TOKENS, keys, heap, issued, ack, unit>>

\* ------------------------------------------------------------- clock
Tick ==
    /\ now < MaxTime
    /\ now' = now + 1
    /\ UNCHANGED <<env, TOKENS, keys, heap, issued, runs, ack, unit>>

\* ----------------------------------------------------- specification
\* The configurations the service is started in: everything set, no
\* OpenAI key, no Telegram chat id.
EnvOf(key, token, chat) == [openai_key |-> key, tg_token |-> token, tg_chat |-> chat]
Environments == {EnvOf(TRUE, TRUE, TRUE), EnvOf(FALSE, TRUE, TRUE), EnvOf(TRUE, TRUE, FALSE)}

Init ==
    /\ now = 0
    /\ env \in Environments
    /\ TOKENS = [a \in Athletes |-> 0]
    /\ keys = <<>>
    /\ heap = [o \in Grants |-> NoRecord]
    /\ issued = 0
    /\ runs = [r \in Callers |-> IdleRun]
    /\ ack = "none"
    /\ unit = NoUnit

Next ==
    \/ \E p \in PayloadFields : Webhook(p)
    \/ OauthCallback
    \/ Tick
    \/ \E r \in RunIds : StartRun(r)
    \/ \E r \in RunIds : GatPost(r)
    \/ \E r \in RunIds : GatWriteAccess(r)
    \/ \E r \in RunIds : GatWriteRefresh(r)
    \/ \E r \in RunIds : GatWriteExpiry(r)
    \/ \E r \in RunIds : GatReturn(r)
    \/ \E r \in RunIds : FetchActivity(r)
    \/ \E r \in RunIds : FetchList(r)
    \/ \E r \in RunIds : AskOpenai(r)
    \/ \E r \in RunIds : SendTg(r)

Spec == Init /\ [][Next]_vars

\* The timeout argument of each external call of a run, in seconds; 0 is
\* no argument: requests then waits for the response without limit.
CallTimeout(name) ==
    CASE name = "refresh" -> 0
      [] name = "activity" -> 15
      [] name = "list" -> 15
      [] name = "openai" -> 30
      [] name = "telegram" -> 10

\* The call comes back, with a response or with the timeout error,
\* whatever the service does.
Returns(name) == CallTimeout(name) > 0

\* The pool thread of a task keeps running: a step that waits for nothing
\* is taken, and so is a call that is bound to come back.
RunFairness ==
    \A r \in RunIds :
        /\ WF_vars(StartRun(r))
        /\ WF_vars(Returns("refresh") /\ GatPost(r))
        /\ WF_vars(GatWriteAccess(r))
        /\ WF_vars(GatWriteRefresh(r))
        /\ WF_vars(GatWriteExpiry(r))
        /\ WF_vars(GatReturn(r))
        /\ WF_vars(Returns("activity") /\ FetchActivity(r))
        /\ WF_vars(Returns("list") /\ FetchList(r))
        /\ WF_vars(Returns("openai") /\ AskOpenai(r))
        /\ WF_vars(Returns("telegram") /\ SendTg(r))

SpecLive == Init /\ [][Next]_vars /\ RunFairness

\* get_access_token called with no other call of it in progress: a run
\* enters it only when no other run is inside it.
NoRunInToken == \A q \in RunIds : runs[q].pc \notin GatPcs

SeqNext ==
    \/ \E p \in PayloadFields : Webhook(p)
    \/ OauthCallback
    \/ Tick
    \/ \E r \in RunIds : NoRunInToken /\ StartRun(r)
    \/ \E r \in RunIds : GatPost(r)
    \/ \E r \in RunIds : GatWriteAccess(r)
    \/ \E r \in RunIds : GatWriteRefresh(r)
    \/ \E r \in RunIds : GatWriteExpiry(r)
    \/ \E r \in RunIds : GatReturn(r)
    \/ \E r \in RunIds : FetchActivity(r)
    \/ \E r \in RunIds : FetchList(r)
    \/ \E r \in RunIds : AskOpenai(r)
    \/ \E r \in RunIds : SendTg(r)

SpecSeq == Init /\ [][SeqNext]_vars

\* ------------------------------------------------------- weekly_plan
\* GET /plan/weekly, the caller PlanId.  With an empty store it answers 400
\* at once.  Otherwise it takes the first key of TOKENS and calls
\* get_access_token, here up to its branch as in StartRun; the key is in
\* TOKENS, since no entry is ever deleted.
PlanStart ==
    /\ runs[PlanId].pc = "idle"
    /\ IF keys = <<>>
       THEN runs' = [runs EXCEPT ![PlanId] = Finished(IdleRun, "no_athlete")]
       ELSE LET athlete_id == Head(keys)
                o == TOKENS[athlete_id]
            IN  runs' = [runs EXCEPT
                  ![PlanId].pc = IF NeedsRefresh(now, heap[o].expires_at)
                                 THEN "gat_post" ELSE "gat_ret",
                  ![PlanId].athlete = Num(athlete_id),
                  ![PlanId].t = o, ![PlanId].pre = heap[o], ![PlanId].nowv = now]
    /\ UNCHANGED <<now, env, TOKENS, keys, heap, issued, ack, unit>>

\* The list fetch, summarize_week and the prompt.  A transport error, a
\* status raise_for_status rejects or an unreadable body answers 500.  The
\* TypeError of summarize_week is caught nowhere: the framework answers 500.
PlanFetch ==
    /\ runs[PlanId].pc = "fetch_act"
    /\ \/ runs' = [runs EXCEPT ![PlanId] =
                    Finished([runs[PlanId] EXCEPT !.calls = Append(@, Call("list", FALSE))],
                             "fetch_failed")]
       \/ \E acts \in FetchedLists :
            LET run == [AfterToken(runs[PlanId]) EXCEPT
                          !.calls = Append(@, Call("list", TRUE))]
                week_summary == summarize_week(acts, now)
            IN  IF week_summary.raised
                THEN runs' = [runs EXCEPT ![PlanId] = Finished(run, "raised")]
                ELSE runs' = [runs EXCEPT ![PlanId] =
                                [run EXCEPT !.pc = "ask", !.summary = week_summary]]
    /\ UNCHANGED <<now, env, TOKENS, keys, heap, issued, ack, unit>>

\* The status of the response of weekly_plan.
PlanStatus(outcome) ==
    CASE outcome = "no_athlete" -> 400
      [] outcome \in {"token_error", "fetch_failed", "raised"} -> 500
      [] outcome = "completed" -> 200
      [] OTHER -> 0

\* One request of GET /plan/weekly with callbacks around it; ask_openai
\* and send_tg are the steps the runs take.
PlanNext ==
    \/ OauthCallback
    \/ Tick
    \/ PlanStart
    \/ GatPost(PlanId)
    \/ GatWriteAccess(PlanId)
    \/ GatWriteRefresh(PlanId)
    \/ GatWriteExpiry(PlanId)
    \/ GatReturn(PlanId)
    \/ PlanFetch
    \/ AskOpenai(PlanId)
    \/ SendTg(PlanId)

SpecPlan == Init /\ [][PlanNext]_vars

\* The token store alone: the callbacks and the get_access_token calls of
\* the runs.  What a run does after get_access_token has returned neither
\* reads nor writes the store.
StoreNext ==
    \/ \E p \in PayloadFields : Webhook(p)
    \/ OauthCallback
    \/ Tick
    \/ \E r \in RunIds : StartRun(r)
    \/ \E r \in RunIds : GatPost(r)
    \/ \E r \in RunIds : GatWriteAccess(r)
    \/ \E r \in RunIds : GatWriteRefresh(r)
    \/ \E r \in RunIds : GatWriteExpiry(r)
    \/ \E r \in RunIds : GatReturn(r)

SpecStore == Init /\ [][StoreNext]_vars

\* --------------------------------------------------- function harness
\* One call of is_moving_activity, summarize_week, ask_openai, send_tg or verify
\* on an input drawn from a bounded set.
Absent == [k |-> "absent", v |-> 0]

\* The JSON object with the keys of f whose value is not Absent.
Object(f) == [key \in {x \in DOMAIN f : f[x].k # "absent"} |-> f[key]]

DistanceValues ==
    {Absent, Null} \cup {Num(v) : v \in {-1, 0, 1, MinDistance * Scale - 1,
                                          MinDistance * Scale, MinDistance * Scale + 1}}
MovingValues ==
    {Absent, Null} \cup {Num(v) : v \in {-1, 0, 1, MinMovingTime * Scale - 1,
                                          MinMovingTime * Scale, MinMovingTime * Scale + 1}}

FilterInputs ==
    {Object([distance |-> d, moving_time |-> m]) : d \in DistanceValues, m \in MovingValues}

\* Entries of an activity list: starts on both sides of the 7-day limit,
\* in each notation, and the malformed ones; numeric fields whole,
\* fractional, null or absent.
StartValues ==
    {Absent, DateNull, DateStr("bad", 0, 0), DateStr("naive", 0, 0),
     DateStr("z", 0, 0), DateStr("z", 1 - Week, 0), DateStr("z", 0 - Week, 0),
     DateStr("offset", 3600 + 1 - Week, 3600)}

NumericSamples ==
    {[moving_time |-> Num(60 * Scale), distance |-> Num(5 * Scale + 1),
      total_elevation_gain |-> Num(Scale - 1)],
     [moving_time |-> Null, distance |-> Absent, total_elevation_gain |-> Absent]}

SummaryEntries ==
    {Object([start_date |-> d, moving_time |-> n.moving_time, distance |-> n.distance,
             total_elevation_gain |-> n.total_elevation_gain]) :
        d \in StartValues, n \in NumericSamples}

RECURSIVE ListsUpTo(_, _)
ListsUpTo(S, n) ==
    IF n = 0 THEN {<<>>}
    ELSE LET shorter == ListsUpTo(S, n - 1)
         IN  shorter \cup {Append(l, x) : l \in {m \in shorter : Len(m) = n - 1}, x \in S}

\* Longest output text of the completion service in the harness.
MaxText == 2
Texts == ListsUpTo({" ", "a"}, MaxText)

AdviceInputs ==
    {Resp(k, OutAbsent) : k \in FailKinds}
    \cup {Resp("ok", o) : o \in {OutAbsent, OutNull} \cup {OutStr(t) : t \in Texts}}

\* Query strings of GET /strava/webhook: each of the three names absent,
\* empty or with a value.
QAbsent == [k |-> "absent", s |-> <<>>]
QueryValues == {QAbsent, QStr(<<>>), QStr(<<"a">>), QStr(<<"b">>)}
QueryNames == {"hub.challenge", "hub_challenge", "challenge"}
Queries ==
    {Object([key \in QueryNames |-> IF key = "hub.challenge" THEN x
                                    ELSE IF key = "hub_challenge" THEN y ELSE z]) :
        x \in QueryValues, y \in QueryValues, z \in QueryValues}

UnitCalls ==
    {[fn |-> "is_moving_activity", done |-> FALSE, activity |-> a, out |-> FALSE] :
        a \in FilterInputs}
    \cup {[fn |-> "summarize_week", done |-> FALSE, acts |-> l, clock |-> c,
           out |-> NoSummary] : l \in ListsUpTo(SummaryEntries, MaxActs), c \in 0 .. MaxTime}
    \cup {[fn |-> "ask_openai", done |-> FALSE, key |-> k, resp |-> x,
           out |-> Reply(0, <<>>)] : k \in BOOLEAN, x \in AdviceInputs}
    \cup {[fn |-> "send_tg", done |-> FALSE, token |-> t, chat |-> c, resp |-> Resp(k, OutAbsent),
           out |-> [calls |-> 0, raised |-> FALSE]] :
        t \in BOOLEAN, c \in BOOLEAN, k \in {"neterr", "http_err", "ok"}}
    \cup {[fn |-> "verify", done |-> FALSE, query |-> q,
           out |-> [status_code |-> 0, body |-> QNone]] : q \in Queries}

CallIsMoving ==
    /\ unit.fn = "is_moving_activity" /\ ~unit.done
    /\ unit' = [unit EXCEPT !.done = TRUE, !.out = is_moving_activity(unit.activity)]
    /\ UNCHANGED <<now, env, TOKENS, keys, heap, issued, runs, ack>>

CallSummarize ==
    /\ unit.fn = "summarize_week" /\ ~unit.done
    /\ unit' = [unit EXCEPT !.done = TRUE, !.out = summarize_week(unit.acts, unit.clock)]
    /\ UNCHANGED <<now, env, TOKENS, keys, heap, issued, runs, ack>>

CallAskOpenai ==
    /\ unit.fn = "ask_openai" /\ ~unit.done
    /\ unit' = [unit EXCEPT !.done = TRUE, !.out = ask_openai(unit.key, unit.resp)]
    /\ UNCHANGED <<now, env, TOKENS, keys, heap, issued, runs, ack>>

CallSendTg ==
    /\ unit.fn = "send_tg" /\ ~unit.done
    /\ unit' = [unit EXCEPT !.done = TRUE,
                            !.out = send_tg(unit.token, unit.chat, unit.resp)]
    /\ UNCHANGED <<now, env, TOKENS, keys, heap, issued, runs, ack>>

CallVerify ==
    /\ unit.fn = "verify" /\ ~unit.done
    /\ unit' = [unit EXCEPT !.done = TRUE, !.out = verify(unit.query)]
    /\ UNCHANGED <<now, env, TOKENS, keys, heap, issued, runs, ack>>

InitFn ==
    /\ now = 0
    /\ env = EnvOf(TRUE, TRUE, TRUE)
    /\ TOKENS = [a \in Athletes |-> 0]
    /\ keys = <<>>
    /\ heap = [o \in Grants |-> NoRecord]
    /\ issued = 0
    /\ runs = [r \in Callers |-> IdleRun]
    /\ ack = "none"
    /\ unit \in UnitCalls

NextFn == CallIsMoving \/ CallSummarize \/ CallAskOpenai \/ CallSendTg \/ CallVerify

SpecFn == InitFn /\ [][NextFn]_vars

\* ------------------------------------------------------------ claims
\* What a numeric field of an object counts as: absent or null is 0.
\* The result is in units of 1 / Scale.
CountsAs(obj, key) ==
    IF key \notin DOMAIN obj \/ obj[key].k = "null" THEN 0 ELSE obj[key].v

NamedCalls(run, name) == {i \in 1 .. Len(run.calls) : run.calls[i].c = name}
FailedCalls(run, name) == {i \in 1 .. Len(run.calls) : run.calls[i] = Call(name, FALSE)}

C1_Triggers(p) == p.object_type = "activity" /\ p.aspect_type \in {"create", "update"}

C1_ScheduledOne(p) ==
    \E r \in RunIds :
        /\ runs[r].pc = "idle"
        /\ runs' = [runs EXCEPT ![r] = [IdleRun EXCEPT !.pc = "queued",
                                                       !.athlete = p.owner_id,
                                                       !.activity = p.object_id]]

\* A step that answers a request or adds a task.
C1_HandlerStep == ack' # ack \/ \E r \in RunIds : runs[r].pc = "idle" /\ runs'[r].pc # "idle"

\* C1: a POST webhook event is answered {"ok": true}; it schedules exactly
\* one run of process_activity for (owner_id, object_id) when object_type is
\* "activity" and aspect_type is "create" or "update", and no run otherwise.
C1_WebhookSchedules ==
    [][C1_HandlerStep =>
         \A p \in PayloadFields :
            Webhook(p) => /\ ack' = "ok"
                          /\ IF C1_Triggers(p) THEN C1_ScheduledOne(p) ELSE runs' = runs]_vars

C1_Witness ==
    /\ ack = "ok"
    /\ runs[1].pc = "queued" /\ runs[1].athlete = Num(2) /\ runs[1].activity = Num(99)
    /\ \A r \in RunIds : r # 1 => runs[r].pc = "idle"

\* C2: a hard error of process_activity (no credential, a failed refresh, a
\* failed single-activity fetch, a prompt-build exception) ends the run at
\* that step: the failing call is the last call of the run, the run makes no
\* list fetch, completion request or notification, and it returns instead of
\* raising.
C2_HardErrorEnds ==
    \A r \in RunIds :
        LET run == runs[r]
            failing == FailedCalls(run, "refresh") \cup FailedCalls(run, "activity")
        IN  /\ failing # {} =>
                 /\ failing = {Len(run.calls)}
                 /\ run.pc = "done"
                 /\ run.outcome \in {"token_error", "fetch_failed"}
            /\ run.outcome \in {"no_token", "token_error", "fetch_failed", "prompt_error"} =>
                 /\ run.pc = "done"
                 /\ run.outcome = "no_token" => run.calls = <<>>
                 /\ run.outcome \in {"token_error", "fetch_failed"} => failing # {}
                 /\ NamedCalls(run, "list") = {}
                 /\ NamedCalls(run, "openai") = {}
                 /\ NamedCalls(run, "telegram") = {}

C2_Witness ==
    \E r \in RunIds :
        /\ runs[r].outcome = "fetch_failed"
        /\ runs[r].calls = <<Call("refresh", TRUE), Call("activity", FALSE)>>

\* C3: get_access_token on a stored record makes exactly one refresh call
\* and returns the access token of that response when the stored token has
\* less than 60 seconds left (or is past its expiry); it makes no refresh
\* call and returns the stored access token when the token has 60 seconds
\* or more left.
C3_RefreshWhenStale ==
    \A r \in RunIds :
        runs[r].pc = "fetch_act" /\ runs[r].t # 0 =>
            LET run == runs[r]
                left == run.pre.expires_at - run.nowv
            IN  IF left < RefreshMargin
                THEN /\ Cardinality(NamedCalls(run, "refresh")) = 1
                     /\ run.data # NoData
                     /\ run.token = run.data.access
                     /\ run.token # run.pre.access
                ELSE /\ NamedCalls(run, "refresh") = {}
                     /\ run.data = NoData
                     /\ run.token = run.pre.access

C3_Witness ==
    \E r \in RunIds :
        /\ runs[r].pc = "fetch_act" /\ runs[r].t # 0
        /\ runs[r].pre.expires_at - runs[r].nowv = RefreshMargin - 1
        /\ runs[r].calls = <<Call("refresh", TRUE)>>
        /\ runs[r].token = runs[r].data.access

\* C4: when the refresh exchange of get_access_token fails, the call ends
\* with the error and no token, and neither the step that entered the call
\* nor the failing exchange changes TOKENS or any stored record.
C4_FailedRefreshKeepsRecord ==
    [][\A r \in RunIds :
          /\ (runs[r].pc = "queued" /\ runs'[r].pc = "gat_post") =>
                 UNCHANGED <<TOKENS, keys, heap>>
          /\ (runs[r].pc = "gat_post" /\ runs'[r].pc = "done") =>
                 /\ UNCHANGED <<TOKENS, keys, heap>>
                 /\ runs'[r].outcome = "token_error"
                 /\ runs'[r].token = 0
                 /\ runs'[r].calls = Append(runs[r].calls, Call("refresh", FALSE))]_vars

C4_Witness ==
    \E r \in RunIds :
        /\ runs[r].outcome = "token_error"
        /\ runs[r].athlete.k = "num"
        /\ TOKENS[runs[r].athlete.v] # 0
        /\ heap[TOKENS[runs[r].athlete.v]].access # 0

C5_ZeroSummary == [raised |-> FALSE, workouts |-> 0, duration_s |-> 0, dist_m |-> 0, elev_m |-> 0]

\* C5: a failed recent-activities fetch does not end the run: the run goes
\* on with the empty list, its week summary is all zeros, and it requests
\* advice and attempts the notification.
C5_ListFailureTolerated ==
    \A r \in RunIds :
        FailedCalls(runs[r], "list") # {} =>
            /\ runs[r].pc \in {"ask", "notify", "done"}
            /\ runs[r].pc \in {"ask", "notify"} => runs[r].summary = C5_ZeroSummary
            /\ runs[r].pc = "notify" => runs[r].advice # <<>>
            /\ runs[r].pc = "done" => runs[r].outcome = "completed"

C5_Witness ==
    \E r \in RunIds :
        /\ FailedCalls(runs[r], "list") # {}
        /\ runs[r].outcome = "completed"
        /\ NamedCalls(runs[r], "openai") # {}
        /\ NamedCalls(runs[r], "telegram") # {}

C6_Fallbacks == {FallbackNoKey, FallbackEmpty, FallbackError}

\* C6: ask_openai never raises; without an API key it returns a fallback
\* and makes no network call; on a transport error, a non-success response
\* or an empty or missing output text it returns a fallback; it returns the
\* (stripped) model text only after a successful call with non-empty output.
C6_AdviceOrFallback ==
    unit.fn = "ask_openai" /\ unit.done =>
        LET out == unit.out
            missing == unit.resp.out.k \in {"absent", "null"}
        IN  /\ ~out.raised
            /\ ~unit.key => out.calls = 0 /\ out.text \in C6_Fallbacks
            /\ unit.key => out.calls = 1
            /\ unit.resp.kind # "ok" => out.text \in C6_Fallbacks
            /\ (missing \/ unit.resp.out.s = <<>>) => out.text \in C6_Fallbacks
            /\ out.text \notin C6_Fallbacks =>
                  /\ unit.key /\ unit.resp.kind = "ok" /\ ~missing
                  /\ unit.resp.out.s # <<>>
                  /\ out.text # <<>>
                  /\ out.text = Strip(unit.resp.out.s)

C6_Witness ==
    /\ unit.fn = "ask_openai" /\ unit.done
    /\ unit.key /\ unit.resp = Resp("ok", OutStr(<<"a", " ">>))
    /\ unit.out.text = <<"a">>

\* C7: send_tg makes no delivery call and raises nothing when the bot token
\* or the chat id is unset; otherwise it makes exactly one delivery call and
\* raises nothing, whatever the outcome of that call.
C7_NotifyBestEffort ==
    unit.fn = "send_tg" /\ unit.done =>
        /\ ~unit.out.raised
        /\ unit.out.calls = IF unit.token /\ unit.chat THEN 1 ELSE 0

C7_Witness ==
    /\ unit.fn = "send_tg" /\ unit.done
    /\ unit.token /\ ~unit.chat /\ unit.out.calls = 0

\* C8: is_moving_activity is FALSE when distance <= 0 and moving_time <= 0,
\* FALSE when moving_time < 60 and distance < 200, and TRUE when
\* moving_time >= 60 or distance >= 200; absent or null fields count as 0.
C8_FilterThresholds ==
    unit.fn = "is_moving_activity" /\ unit.done =>
        LET dist == CountsAs(unit.activity, "distance")
            moving == CountsAs(unit.activity, "moving_time")
        IN  /\ (dist <= 0 /\ moving <= 0) => unit.out = FALSE
            /\ (moving < 60 * Scale /\ dist < 200 * Scale) => unit.out = FALSE
            /\ (moving >= 60 * Scale \/ dist >= 200 * Scale) => unit.out = TRUE

C8_Witness ==
    /\ unit.fn = "is_moving_activity" /\ unit.done
    /\ unit.activity = Object([distance |-> Null, moving_time |-> Num(60 * Scale)])
    /\ unit.out = TRUE

\* The start of an entry as an instant, when its start_date denotes one.
C9_HasInstant(x) ==
    /\ "start_date" \in DOMAIN x
    /\ x["start_date"].k = "str"
    /\ x["start_date"].form \in {"z", "offset"}
C9_Instant(x) == x["start_date"].local - x["start_date"].off

C9_Recent(acts, clock) ==
    {i \in 1 .. Len(acts) : C9_HasInstant(acts[i]) /\ C9_Instant(acts[i]) > clock - Week}

RECURSIVE C9_Sum(_, _, _)
C9_Sum(acts, idx, key) ==
    IF idx = {} THEN 0
    ELSE LET i == CHOOSE j \in idx : TRUE
         IN  CountsAs(acts[i], key) + C9_Sum(acts, idx \ {i}, key)

\* C9: summarize_week returns the count and the sums of moving_time,
\* distance and total_elevation_gain of exactly the entries that start
\* strictly after now minus 7 days, absent fields counting as 0.
C9_ExactWeekTotals ==
    unit.fn = "summarize_week" /\ unit.done =>
        LET recent == C9_Recent(unit.acts, unit.clock)
        IN  /\ ~unit.out.raised
            /\ unit.out.workouts = Cardinality(recent)
            /\ unit.out.duration_s * Scale = C9_Sum(unit.acts, recent, "moving_time")
            /\ unit.out.dist_m * Scale = C9_Sum(unit.acts, recent, "distance")
            /\ unit.out.elev_m * Scale = C9_Sum(unit.acts, recent, "total_elevation_gain")

\* C10: an entry whose start timestamp is malformed (missing, unparsable or
\* without a time zone) is skipped: summarize_week raises nothing and
\* counts the remaining entries.
C10_MalformedSkipped ==
    unit.fn = "summarize_week" /\ unit.done =>
        /\ ~unit.out.raised
        /\ unit.out.workouts = Cardinality(C9_Recent(unit.acts, unit.clock))

\* C11: the acknowledgment of a triggering event does not wait for the run.
\* The step that schedules a run produces the response {"ok": true} and
\* leaves the run not started (no call made, no outcome); a run starts only
\* in a later step, with the response already produced; and no step of a
\* scheduled run, however the run ends, changes the response.
C11_AckBeforeRun ==
    [][\A r \in RunIds :
          /\ (runs[r].pc = "idle" /\ runs'[r].pc # "idle") =>
                 /\ ack' = "ok"
                 /\ runs'[r].pc = "queued"
                 /\ runs'[r].calls = <<>> /\ runs'[r].outcome = "none"
          /\ (runs[r].pc = "queued" /\ runs'[r].pc # "queued") =>
                 ack = "ok" /\ ack' = "ok"
          /\ (runs[r].pc # "idle" /\ runs'[r] # runs[r]) => ack' = ack]_vars

C11_Witness ==
    /\ ack = "ok"
    /\ \E r, q \in RunIds :
          /\ runs[r].outcome = "completed"
          /\ runs[q].outcome = "raised"

\* C12: a successful oauth_callback stores for the athlete the server
\* names exactly the credentials of that exchange, in place of any prior
\* record, and leaves every other record as it was; a step of a run whose
\* dict object is not the athlete's current one (a refresh that started
\* before the callback) leaves the athlete's current record as it is; a
\* callback whose exchange fails changes nothing in the store.
C12_CallbackReplaces ==
    [][/\ \A a \in Athletes :
             TOKENS'[a] # TOKENS[a] =>
                LET g == TOKENS'[a]
                IN  /\ g = issued + 1 /\ issued' = g
                    /\ \E life \in Lifetimes :
                          heap'[g] = [access |-> g, refresh |-> g,
                                      expires_at |-> now + life]
                    /\ \A b \in Athletes \ {a} : TOKENS'[b] = TOKENS[b]
                    /\ \A o \in Grants \ {g} : heap'[o] = heap[o]
       /\ \A r \in RunIds, a \in Athletes :
             (runs'[r] # runs[r] /\ TOKENS[a] # 0 /\ runs[r].t # TOKENS[a]) =>
                /\ TOKENS'[a] = TOKENS[a]
                /\ heap'[TOKENS[a]] = heap[TOKENS[a]]
       /\ (OauthCallback /\ issued' = issued) => UNCHANGED <<TOKENS, keys, heap>>]_vars

\* A refresh of athlete a that read the old dict has its response and has
\* written nothing yet, while the store holds the credentials of a second
\* callback for a.
C12_Witness ==
    \E r \in RunIds, a \in Athletes :
        /\ runs[r].athlete = Num(a)
        /\ runs[r].pc = "gat_w_access"
        /\ runs[r].t # 0 /\ TOKENS[a] # runs[r].t
        /\ heap[TOKENS[a]].access = TOKENS[a]

\* C13: weekly_plan answers 400 and makes no external call when no athlete
\* is connected; it answers 500 and sends no notification when the token
\* refresh or the recent-activities fetch fails; in every other case it
\* requests advice once, sends one notification and answers the
\* confirmation.
C13_PlanResponses ==
    LET run == runs[PlanId]
        failed == FailedCalls(run, "refresh") \cup FailedCalls(run, "list")
    IN  run.pc = "done" =>
           /\ run.outcome = "no_athlete" =>
                  PlanStatus(run.outcome) = 400 /\ run.calls = <<>>
           /\ failed # {} =>
                  /\ PlanStatus(run.outcome) = 500
                  /\ NamedCalls(run, "openai") = {}
                  /\ NamedCalls(run, "telegram") = {}
           /\ (run.outcome # "no_athlete" /\ failed = {}) =>
                  /\ PlanStatus(run.outcome) = 200
                  /\ env.openai_key => Cardinality(NamedCalls(run, "openai")) = 1
                  /\ env.tg_token /\ env.tg_chat =>
                        Cardinality(NamedCalls(run, "telegram")) = 1

\* The value of a query parameter that is present and not empty.
C14_Given(query, key) == key \in DOMAIN query /\ query[key].s # <<>>

\* C14 (amended): GET /strava/webhook answers 200 with {"hub.challenge": v}
\* where v is the first non-empty value among the query parameters
\* hub.challenge, hub_challenge and challenge, in that order, and the empty
\* string when none of them has a non-empty value.
C14_ChallengeEcho ==
    unit.fn = "verify" /\ unit.done =>
        LET q == unit.query
        IN  /\ unit.out.status_code = 200
            /\ unit.out.body.k = "str"
            /\ unit.out.body.s =
                  IF C14_Given(q, "hub.challenge") THEN q["hub.challenge"].s
                  ELSE IF C14_Given(q, "hub_challenge") THEN q["hub_challenge"].s
                  ELSE IF C14_Given(q, "challenge") THEN q["challenge"].s
                  ELSE <<>>

C14_Witness ==
    /\ unit.fn = "verify" /\ unit.done
    /\ DOMAIN unit.query = {"hub_challenge"}
    /\ unit.query["hub_challenge"] = QStr(<<"a">>)
    /\ unit.out.body = QStr(<<"a">>)

\* C14 as stated: v is the value of hub.challenge when that parameter is
\* present and the empty string when it is absent.
C14_OriginalEcho ==
    unit.fn = "verify" /\ unit.done =>
        /\ unit.out.status_code = 200
        /\ unit.out.body.k = "str"
        /\ unit.out.body.s = IF "hub.challenge" \in DOMAIN unit.query
                              THEN unit.query["hub.challenge"].s ELSE <<>>

\* The record is what a callback stored, untouched by any refresh.
C15_FromCallback(rec) ==
    rec.access \in Grants /\ rec.refresh = rec.access

\* The record is the complete result of the refresh response of caller r:
\* its access token and expiry, and its refresh token when it has one (the
\* refresh token kept otherwise is not constrained).
C15_FromResponse(rec, r) ==
    /\ runs[r].data # NoData
    /\ rec.access = runs[r].data.access
    /\ rec.expires_at = runs[r].data.expires_at
    /\ runs[r].data.refresh # 0 => rec.refresh = runs[r].data.refresh

\* C15: in every reachable state the stored record of an athlete is either
\* a complete record no refresh has touched or the complete result of one
\* single refresh response, never a mix of fields of different records.
C15_AtomicRefresh ==
    \A a \in Athletes :
        TOKENS[a] # 0 =>
            \/ C15_FromCallback(heap[TOKENS[a]])
            \/ \E r \in RunIds : C15_FromResponse(heap[TOKENS[a]], r)

\* The same with no refresh in the middle of its writes.
C15_AtomicAtRest ==
    (\A r \in RunIds : runs[r].pc \notin {"gat_w_access", "gat_w_refresh", "gat_w_exp"})
        => C15_AtomicRefresh

\* The step is a platform call of run r with its access token: the
\* single-activity fetch or the recent-activities fetch.
C16_UsesToken(r) ==
    /\ Len(runs'[r].calls) = Len(runs[r].calls) + 1
    /\ runs'[r].calls[Len(runs'[r].calls)].c \in {"activity", "list"}

\* C16: at every platform call of a run, the access token the run uses
\* has at least 60 seconds left of the expiry recorded with it in the
\* store.
C16_FreshAtUse ==
    [][\A r \in RunIds :
          C16_UsesToken(r) =>
              \A o \in Grants :
                  heap[o].access = runs[r].token =>
                      heap[o].expires_at - now >= RefreshMargin]_vars

\* C17: a run goes on to the recent-activities fetch only with an activity
\* is_moving_activity accepts; a run whose activity is rejected returns right
\* after the filter: the single-activity fetch is its last call, it makes
\* no recent-activities fetch, completion request or notification, and it
\* ends by returning.
C17_RejectedEndsRun ==
    \A r \in RunIds :
        LET run == runs[r]
        IN  /\ run.pc \in {"fetch_list", "ask", "notify"} =>
                   is_moving_activity(run.r_act)
            /\ run.outcome = "skipped" =>
                   /\ run.pc = "done"
                   /\ run.calls # <<>>
                   /\ run.calls[Len(run.calls)] = Call("activity", TRUE)
                   /\ NamedCalls(run, "list") = {}
                   /\ NamedCalls(run, "openai") = {}
                   /\ NamedCalls(run, "telegram") = {}

C17_Witness ==
    \E r \in RunIds :
        /\ runs[r].outcome = "skipped"
        /\ runs[r].calls = <<Call("refresh", TRUE), Call("activity", TRUE)>>

\* The place of an external call in the order of process_activity.
C18_Rank(name) ==
    CASE name = "refresh" -> 1
      [] name = "activity" -> 2
      [] name = "list" -> 3
      [] name = "openai" -> 4
      [] name = "telegram" -> 5

\* C18: the external calls of a run occur in the order token refresh,
\* single-activity fetch, recent-activities fetch, completion request,
\* notification; each is made at most once, so no failed call is retried;
\* and the later calls are made only after a successful single-activity
\* fetch and a recent-activities fetch.
C18_OrderedOnce ==
    \A r \in RunIds :
        LET c == runs[r].calls
        IN  /\ \A i, j \in 1 .. Len(c) : i < j => C18_Rank(c[i].c) < C18_Rank(c[j].c)
            /\ \A i \in 1 .. Len(c) :
                  /\ C18_Rank(c[i].c) >= 3 => \E j \in 1 .. i - 1 : c[j] = Call("activity", TRUE)
                  /\ C18_Rank(c[i].c) >= 4 => \E j \in 1 .. i - 1 : c[j].c = "list"
                  /\ (c[i].c \in {"refresh", "activity"} /\ ~c[i].ok) => i = Len(c)

C18_Witness ==
    \E r \in RunIds :
        /\ runs[r].outcome = "completed"
        /\ runs[r].calls = <<Call("refresh", TRUE), Call("activity", TRUE), Call("list", FALSE),
                             Call("openai", TRUE), Call("telegram", TRUE)>>

\* C19: every run that has started eventually reaches its end, whatever
\* the services do: each of its external calls comes back within its
\* timeout.
C19_RunsEnd ==
    \A r \in RunIds : (runs[r].pc \notin {"idle", "queued"}) ~> (runs[r].pc = "done")

\* What the three assignments of a refresh may make of a record.
C20_RefreshWrites(rec, data) ==
    {[rec EXCEPT !.access = data.access],
     [rec EXCEPT !.refresh = IF data.refresh # 0 THEN data.refresh ELSE @],
     [rec EXCEPT !.expires_at = data.expires_at]}

\* C20: a step of a run for athlete A never adds, removes or rebinds an
\* entry of the token store; the only dict it changes is the one it read
\* for A, and only by an assignment of its refresh; the current record of
\* every other athlete stays as it is.
C20_RunFrame ==
    [][\A r \in RunIds :
          (runs'[r] # runs[r] /\ runs[r].pc # "idle") =>
              /\ TOKENS' = TOKENS /\ keys' = keys
              /\ \A o \in Grants :
                    heap'[o] # heap[o] =>
                        /\ o = runs[r].t
                        /\ runs[r].pc \in {"gat_w_access", "gat_w_refresh", "gat_w_exp"}
                        /\ heap'[o] \in C20_RefreshWrites(heap[o], runs[r].data)
              /\ \A b \in Athletes :
                    (runs[r].athlete # Num(b) /\ TOKENS[b] # 0) =>
                        heap'[TOKENS[b]] = heap[TOKENS[b]]]_vars

C20_Witness ==
    \E r \in RunIds :
        /\ runs[r].athlete = Num(1)
        /\ runs[r].pc = "gat_ret"
        /\ runs[r].calls = <<Call("refresh", TRUE)>>
        /\ TOKENS[1] = runs[r].t
        /\ heap[TOKENS[1]].access = RefreshGrant(r)
        /\ TOKENS[2] # 0
        /\ heap[TOKENS[2]].access = TOKENS[2]

====
